---------------------------- MODULE Spec2Model ----------------------------
(***************************************************************************)
(* Tarp Papel Maker: the poster editor (App, CanvasWorkspace) and the      *)
(* tiled PDF export (generateTiledPDF).                                    *)
(*                                                                         *)
(* Numbers.  The layout and the tiling take discrete decisions on          *)
(* JavaScript numbers (Math.ceil, sw > 0), so they are computed in IEEE-754 *)
(* binary64 with round-to-nearest-even, as the code computes them: a       *)
(* number is [sgn, man, exp] with value sgn * man * 2^exp and man a 53-bit *)
(* significand held in 15-bit limbs.  The config's physical fields are     *)
(* decimals the user types; they are stored in thousandths of the active   *)
(* unit and become the nearest binary64 where the code reads them.  Layer  *)
(* geometry (fractions of the poster) is binary64 too, with the Infinity   *)
(* and NaN a division by a poster of no size gives; pointer positions are  *)
(* whole pixels.                                                           *)
(***************************************************************************)
EXTENDS Integers, Sequences, FiniteSets, TLC

\* pressed: the layer on whose element the mouse button went down, until
\* the press ends in a click or the pointer leaves the container
VARIABLES config, layers, selectedLayerId, interaction, isExporting, runs,
          nextId, edits, gestures, pressed

vars == <<config, layers, selectedLayerId, interaction, isExporting, runs,
          nextId, edits, gestures, pressed>>

\* ------------------------------------------------------------- bounds
\* config edits in one behaviour of Spec
MaxEdits == 1
\* layers ever added in one behaviour
MaxLayers == 1
\* generateTiledPDF invocations alive at once (the guard of the export
\* button keeps it at one; the cap only bounds a model without the guard)
MaxRuns == 2

\* ----------------------------------------- binary64: natural numbers
LimbBits == 15
MantBits == 53
LimbBase == 2 ^ LimbBits

Limb(a, i) == IF i <= Len(a) THEN a[i] ELSE 0

Zeros(n) == [i \in 1..n |-> 0]

RECURSIVE BNorm(_)
BNorm(a) == IF a = <<>> THEN a
            ELSE IF a[Len(a)] = 0 THEN BNorm(SubSeq(a, 1, Len(a) - 1)) ELSE a

RECURSIVE BFromInt(_)
BFromInt(n) == IF n = 0 THEN <<>> ELSE <<n % LimbBase>> \o BFromInt(n \div LimbBase)

RECURSIVE BToInt(_)
BToInt(a) == IF a = <<>> THEN 0 ELSE a[1] + LimbBase * BToInt(Tail(a))

RECURSIVE BCmpFrom(_, _, _)
BCmpFrom(a, b, i) ==
    IF i = 0 THEN 0
    ELSE IF Limb(a, i) > Limb(b, i) THEN 1
    ELSE IF Limb(a, i) < Limb(b, i) THEN -1
    ELSE BCmpFrom(a, b, i - 1)

BCmp(a, b) == BCmpFrom(a, b, IF Len(a) > Len(b) THEN Len(a) ELSE Len(b))

RECURSIVE BAddFrom(_, _, _, _)
BAddFrom(a, b, i, carry) ==
    IF i > Len(a) /\ i > Len(b)
    THEN IF carry = 0 THEN <<>> ELSE <<carry>>
    ELSE LET s == Limb(a, i) + Limb(b, i) + carry
         IN  <<s % LimbBase>> \o BAddFrom(a, b, i + 1, s \div LimbBase)

BAdd(a, b) == BAddFrom(a, b, 1, 0)

RECURSIVE BSubFrom(_, _, _, _)
BSubFrom(a, b, i, borrow) ==
    IF i > Len(a) THEN <<>>
    ELSE LET d == Limb(a, i) - Limb(b, i) - borrow
         IN  IF d < 0 THEN <<d + LimbBase>> \o BSubFrom(a, b, i + 1, 1)
             ELSE <<d>> \o BSubFrom(a, b, i + 1, 0)

\* a - b for a >= b
BSub(a, b) == BNorm(BSubFrom(a, b, 1, 0))

RECURSIVE BMulSmallFrom(_, _, _, _)
BMulSmallFrom(a, k, i, carry) ==
    IF i > Len(a)
    THEN IF carry = 0 THEN <<>> ELSE <<carry>>
    ELSE LET p == a[i] * k + carry
         IN  <<p % LimbBase>> \o BMulSmallFrom(a, k, i + 1, p \div LimbBase)

\* a * k for 0 <= k < LimbBase
BMulSmall(a, k) == IF k = 0 THEN <<>> ELSE BMulSmallFrom(a, k, 1, 0)

RECURSIVE BMulFrom(_, _, _)
BMulFrom(a, b, i) ==
    IF i > Len(b) THEN <<>>
    ELSE BAdd(Zeros(i - 1) \o BMulSmall(a, b[i]), BMulFrom(a, b, i + 1))

BMul(a, b) == BNorm(BMulFrom(a, b, 1))

BShl(a, n) == IF a = <<>> THEN a
              ELSE Zeros(n \div LimbBits) \o BMulSmall(a, 2 ^ (n % LimbBits))

RECURSIVE BShrBitsFrom(_, _, _)
BShrBitsFrom(a, r, i) ==
    IF i > Len(a) THEN <<>>
    ELSE <<(a[i] \div (2 ^ r)) + (Limb(a, i + 1) % (2 ^ r)) * (2 ^ (LimbBits - r))>>
         \o BShrBitsFrom(a, r, i + 1)

BShr(a, n) ==
    LET w == n \div LimbBits
        r == n % LimbBits
        hi == IF w >= Len(a) THEN <<>> ELSE SubSeq(a, w + 1, Len(a))
    IN  BNorm(IF r = 0 THEN hi ELSE BShrBitsFrom(hi, r, 1))

RECURSIVE IntBitLen(_)
IntBitLen(n) == IF n = 0 THEN 0 ELSE 1 + IntBitLen(n \div 2)

BBitLen(a) == IF a = <<>> THEN 0 ELSE LimbBits * (Len(a) - 1) + IntBitLen(a[Len(a)])

\* the low n bits of a
BLowBits(a, n) == BSub(a, BShl(BShr(a, n), n))

\* One digit of the long division: p.rem < b and b's top limb is at least
\* LimbBase / 2, so the estimated digit is at most 2 too large.
BDivNext(p, b) ==
    IF p.rem = <<>>
    THEN [quo |-> IF p.quo = <<>> THEN <<>> ELSE <<0>> \o p.quo, rem |-> <<>>]
    ELSE LET r == <<0>> \o p.rem
             n == Len(b)
             top == Limb(r, n + 1) * LimbBase + Limb(r, n)
             est == top \div b[n]
             q0 == IF est > LimbBase - 1 THEN LimbBase - 1 ELSE est
             q1 == IF BCmp(BMulSmall(b, q0), r) > 0 THEN q0 - 1 ELSE q0
             q2 == IF BCmp(BMulSmall(b, q1), r) > 0 THEN q1 - 1 ELSE q1
         IN  [quo |-> BNorm(<<q2>> \o p.quo), rem |-> BSub(r, BMulSmall(b, q2))]

RECURSIVE BDivLimbs(_, _, _)
\* floor(a * LimbBase^k / b) and the remainder, for a < 2b
BDivLimbs(a, b, k) ==
    IF k = 0
    THEN IF BCmp(a, b) >= 0 THEN [quo |-> <<1>>, rem |-> BSub(a, b)]
         ELSE [quo |-> <<>>, rem |-> a]
    ELSE BDivNext(BDivLimbs(a, b, k - 1), b)

\* ------------------------------------------------ binary64: the numbers
Zero == [sgn |-> 1, man |-> <<>>, exp |-> 0]

\* s * n * 2^e (and, with sticky, a little more) rounded to nearest, ties
\* to even
RoundBig(s, n, e, sticky) ==
    LET len == BBitLen(n)
    IN  IF len = 0 THEN Zero
        ELSE IF len <= MantBits
        THEN [sgn |-> s, man |-> BShl(n, MantBits - len), exp |-> e - (MantBits - len)]
        ELSE LET d == len - MantBits
                 q == BShr(n, d)
                 c == BCmp(BLowBits(n, d), BShl(<<1>>, d - 1))
                 up == c > 0 \/ (c = 0 /\ (sticky \/ q[1] % 2 = 1))
                 q1 == IF up THEN BAdd(q, <<1>>) ELSE q
             IN  IF BBitLen(q1) > MantBits
                 THEN [sgn |-> s, man |-> BShr(q1, 1), exp |-> e + d + 1]
                 ELSE [sgn |-> s, man |-> q1, exp |-> e + d]

FromInt(n) == IF n < 0 THEN RoundBig(-1, BFromInt(-n), 0, FALSE)
              ELSE RoundBig(1, BFromInt(n), 0, FALSE)

FNeg(a) == IF a.man = <<>> THEN a ELSE [a EXCEPT !.sgn = -a.sgn]

FSign(a) == IF a.man = <<>> THEN 0 ELSE a.sgn

FMul(a, b) == RoundBig(a.sgn * b.sgn, BMul(a.man, b.man), a.exp + b.exp, FALSE)

\* a / b for b # 0: four limbs of quotient (60 bits) and a sticky bit
FDiv(a, b) ==
    IF a.man = <<>> THEN Zero
    ELSE LET d == BDivLimbs(BShl(a.man, 60 - MantBits), BShl(b.man, 60 - MantBits), 4)
         IN  RoundBig(a.sgn * b.sgn, d.quo, a.exp - b.exp - 4 * LimbBits, d.rem # <<>>)

FAdd(a, b) ==
    IF a.man = <<>> THEN b
    ELSE IF b.man = <<>> THEN a
    ELSE LET e == IF a.exp < b.exp THEN a.exp ELSE b.exp
             x == BShl(a.man, a.exp - e)
             y == BShl(b.man, b.exp - e)
             c == BCmp(x, y)
         IN  IF a.sgn = b.sgn THEN RoundBig(a.sgn, BAdd(x, y), e, FALSE)
             ELSE IF c = 0 THEN Zero
             ELSE IF c > 0 THEN RoundBig(a.sgn, BSub(x, y), e, FALSE)
             ELSE RoundBig(b.sgn, BSub(y, x), e, FALSE)

FSub(a, b) == FAdd(a, FNeg(b))

\* a < b, a <= b, a = b as numbers
FLt(a, b) == FSign(FSub(a, b)) < 0
FLe(a, b) == FSign(FSub(a, b)) <= 0

\* Math.min
FMin(a, b) == IF FLt(b, a) THEN b ELSE a

\* Math.ceil, as an integer
FCeil(a) ==
    IF a.man = <<>> THEN 0
    ELSE IF a.exp >= 0 THEN a.sgn * BToInt(BShl(a.man, a.exp))
    ELSE LET q == BToInt(BShr(a.man, -a.exp))
             frac == BLowBits(a.man, -a.exp) # <<>>
         IN  IF a.sgn > 0 THEN (IF frac THEN q + 1 ELSE q) ELSE -q

\* the number a decimal literal n / d denotes: the nearest binary64
Dec(n, d) == FDiv(FromInt(n), FromInt(d))

\* Number.prototype.toFixed(2), in hundredths: the integer n with n / 100
\* nearest to a, the larger magnitude on a tie
ToFixed2(a) ==
    IF a.man = <<>> THEN 0
    ELSE LET n == BMulSmall(a.man, 100)
         IN  IF a.exp >= 0 THEN a.sgn * BToInt(BShl(n, a.exp))
             ELSE LET q == BToInt(BShr(n, -a.exp))
                      c == BCmp(BLowBits(n, -a.exp), BShl(<<1>>, -a.exp - 1))
                  IN  a.sgn * (IF c >= 0 THEN q + 1 ELSE q)

\* ------------------------------------------ binary64: Infinity and NaN
\* The canvas divides by the displayed size of the poster, which is zero
\* for a grid of no columns or no rows.  Infinity and NaN are the numbers
\* with no significand and exp 1 and 2; zero is the one with exp 0.
Infinity == [sgn |-> 1, man |-> <<>>, exp |-> 1]

NaN == [sgn |-> 1, man |-> <<>>, exp |-> 2]

IsNaN(a) == a.man = <<>> /\ a.exp = 2

IsInfinite(a) == a.man = <<>> /\ a.exp = 1

IsZero(a) == a.man = <<>> /\ a.exp = 0

NumNeg(a) ==
    IF IsNaN(a) THEN a
    ELSE IF IsInfinite(a) THEN [a EXCEPT !.sgn = -a.sgn]
    ELSE FNeg(a)

\* a + b
NumAdd(a, b) ==
    IF IsNaN(a) \/ IsNaN(b) THEN NaN
    ELSE IF IsInfinite(a) THEN (IF IsInfinite(b) /\ b.sgn # a.sgn THEN NaN ELSE a)
    ELSE IF IsInfinite(b) THEN b
    ELSE FAdd(a, b)

\* a - b
NumSub(a, b) == NumAdd(a, NumNeg(b))

\* a / b; the zeros of the canvas are positive
NumDiv(a, b) ==
    IF IsNaN(a) \/ IsNaN(b) THEN NaN
    ELSE IF IsInfinite(a)
    THEN (IF IsInfinite(b) THEN NaN
          ELSE IF IsZero(b) THEN a
          ELSE [a EXCEPT !.sgn = a.sgn * b.sgn])
    ELSE IF IsInfinite(b) THEN Zero
    ELSE IF IsZero(b)
    THEN (IF IsZero(a) THEN NaN ELSE [Infinity EXCEPT !.sgn = a.sgn])
    ELSE FDiv(a, b)

\* a < b
NumLt(a, b) ==
    IF IsNaN(a) \/ IsNaN(b) THEN FALSE
    ELSE IF IsInfinite(a) THEN a.sgn < 0 /\ a # b
    ELSE IF IsInfinite(b) THEN b.sgn > 0
    ELSE FLt(a, b)

\* a >= b
NumGe(a, b) == ~IsNaN(a) /\ ~IsNaN(b) /\ ~NumLt(a, b)

\* Math.max
MathMax(a, b) ==
    IF IsNaN(a) \/ IsNaN(b) THEN NaN
    ELSE IF NumLt(a, b) THEN b ELSE a

\* --------------------------------------------------------- the catalog
\* PAPER_SIZES: id, width and height in tenths of a millimetre, in the
\* order of the table
PAPER_SIZES ==
    << [id |-> "a3",      width |-> 2970, height |-> 4200],
       [id |-> "a3plus",  width |-> 3290, height |-> 4830],
       [id |-> "a4",      width |-> 2100, height |-> 2970],
       [id |-> "a5",      width |-> 1480, height |-> 2100],
       [id |-> "a6",      width |-> 1050, height |-> 1480],
       [id |-> "letter",  width |-> 2159, height |-> 2794],
       [id |-> "legal",   width |-> 2159, height |-> 3556],
       [id |-> "folio",   width |-> 2159, height |-> 3302],
       [id |-> "tabloid", width |-> 2794, height |-> 4318],
       [id |-> "4x6",     width |-> 1016, height |-> 1524],
       [id |-> "5x7",     width |-> 1270, height |-> 1778],
       [id |-> "8x10",    width |-> 2032, height |-> 2540] >>

PaperIds == {PAPER_SIZES[i].id : i \in DOMAIN PAPER_SIZES}

DEFAULT_PAPER_ID == "letter"

\* PAPER_SIZES.find(p => p.id === id): the index of the first entry with
\* the id, 0 for undefined
RECURSIVE FindPaperFrom(_, _)
FindPaperFrom(id, i) ==
    IF i > Len(PAPER_SIZES) THEN 0
    ELSE IF PAPER_SIZES[i].id = id THEN i
    ELSE FindPaperFrom(id, i + 1)

DEFAULT_PAPER ==
    LET i == FindPaperFrom(DEFAULT_PAPER_ID, 1)
    IN  IF i = 0 THEN PAPER_SIZES[1] ELSE PAPER_SIZES[i]

\* the fallback to the first entry of the table instead of DEFAULT_PAPER
selectedPaper_FirstEntry(cfg) ==
    LET i == FindPaperFrom(cfg.paperId, 1)
    IN  IF i = 0 THEN PAPER_SIZES[1] ELSE PAPER_SIZES[i]

\* const selectedPaper = PAPER_SIZES.find(...) || DEFAULT_PAPER
selectedPaper(cfg) ==
    LET i == FindPaperFrom(cfg.paperId, 1)
    IN  IF i = 0 THEN DEFAULT_PAPER ELSE PAPER_SIZES[i]

\* ---------------------------------------------------------- the editor
\* The config's physical fields (targetWidth, targetHeight, margin,
\* overlap) are in thousandths of config.unit.
DefaultConfig ==
    [ mode |-> "grid", unit |-> "in",
      targetWidth |-> 36000, targetHeight |-> 48000,
      gridRows |-> 3, gridCols |-> 3,
      paperId |-> DEFAULT_PAPER.id, orientation |-> "portrait",
      margin |-> 500, overlap |-> 250,
      showCutLines |-> TRUE, cutLineStyle |-> "dashed",
      showPageNumbers |-> TRUE ]

\* null, for a handle or an error
None == "none"

\* null, for a layer id (the ids of the layers count from 1)
NullId == 0

\* the interaction state between gestures; startLayer is <<>> for null
\* and <<layer>> for a snapshot
NoInteraction ==
    [ mode |-> "none", activeHandle |-> None,
      startMouse |-> [x |-> 0, y |-> 0], startLayer |-> <<>> ]

Init ==
    /\ config = DefaultConfig
    /\ layers = <<>>
    /\ selectedLayerId = NullId
    /\ interaction = NoInteraction
    /\ isExporting = FALSE
    /\ runs = <<>>
    /\ nextId = 1
    /\ edits = 0
    /\ gestures = 0
    /\ pressed = NullId

\* what the user types or picks in the settings panel; an <input
\* type="number"> hands any number to onChange, its min and max only
\* mark the field
GridInputs == {0, 21}
TargetInputs == {0, 20000}
MarginInputs == {-100, 100, 4250}
PaperInputs == {"letter", "a4"}
StyleInputs == {"dashed", "solid", "none"}

\* the literal 25.4
MmPerInch == Dec(254, 10)

\* the entry of a paper whose width and height are the numbers w and h
PaperEntry(id, w, h) ==
    [ id |-> id, width |-> w, height |-> h,
      widthIn |-> FDiv(w, MmPerInch), heightIn |-> FDiv(h, MmPerInch) ]

RECURSIVE PaperNumbersFrom(_)
PaperNumbersFrom(i) ==
    IF i > Len(PAPER_SIZES) THEN <<>>
    ELSE << PaperEntry(PAPER_SIZES[i].id, Dec(PAPER_SIZES[i].width, 10),
                       Dec(PAPER_SIZES[i].height, 10)) >>
         \o PaperNumbersFrom(i + 1)

PaperNumbers == PaperNumbersFrom(1)

\* a paper's width and height as the numbers of the table, and what
\* paperSize.width / 25.4 and paperSize.height / 25.4 evaluate to
PaperNumber == [id \in PaperIds |-> PaperNumbers[FindPaperFrom(id, 1)]]

\* the decimal n thousandths as the number the code reads
Num(n) == Dec(n, 1000)

\* the digits of y after the second cut instead of rounded, n being y
\* rounded
Truncated(y, n) == 10 * (IF n > 0 /\ FLt(y, Dec(n, 100)) THEN n - 1 ELSE n)

\* the conversion cutting the digits after the second instead of rounding
ConvertField_Truncates(x, factor) ==
    Truncated(FMul(Num(x), factor), ToFixed2(FMul(Num(x), factor)))

\* the hundredths of y rounded up instead of to the nearest, n being y
\* rounded
RoundedUp(y, n) == 10 * (IF FLt(Dec(n, 100), y) THEN n + 1 ELSE n)

\* the conversion rounding up to the second digit
ConvertField_RoundsUp(x, factor) ==
    RoundedUp(FMul(Num(x), factor), ToFixed2(FMul(Num(x), factor)))

\* parseFloat((x * factor).toFixed(2)), in thousandths
ConvertField(x, factor) == 10 * ToFixed2(FMul(Num(x), factor))

\* the config with newUnit and its four physical fields times factor
Converted(prev, newUnit, factor) ==
    [prev EXCEPT !.unit = newUnit,
                 !.targetWidth = ConvertField(prev.targetWidth, factor),
                 !.targetHeight = ConvertField(prev.targetHeight, factor),
                 !.margin = ConvertField(prev.margin, factor),
                 !.overlap = ConvertField(prev.overlap, factor)]

\* toggleUnit's config
toggleUnitConfig(prev) ==
    IF prev.unit = "mm" THEN Converted(prev, "in", FDiv(FromInt(1), MmPerInch))
    ELSE Converted(prev, "mm", MmPerInch)

\* one setConfig of the settings panel changes config and nothing else; a
\* setConfig with the value the field has is no step
SetConfig(c) ==
    /\ c # config
    /\ edits < MaxEdits
    /\ config' = c
    /\ edits' = edits + 1
    /\ UNCHANGED <<layers, selectedLayerId, interaction, isExporting, runs, nextId,
                   gestures, pressed>>

toggleUnit == SetConfig(toggleUnitConfig(config))

SetMode == \E m \in {"grid", "size"} : SetConfig([config EXCEPT !.mode = m])

SetGridRows ==
    /\ config.mode = "grid"
    /\ \E n \in GridInputs : SetConfig([config EXCEPT !.gridRows = n])

SetGridCols ==
    /\ config.mode = "grid"
    /\ \E n \in GridInputs : SetConfig([config EXCEPT !.gridCols = n])

SetTargetWidth ==
    /\ config.mode = "size"
    /\ \E n \in TargetInputs : SetConfig([config EXCEPT !.targetWidth = n])

SetTargetHeight ==
    /\ config.mode = "size"
    /\ \E n \in TargetInputs : SetConfig([config EXCEPT !.targetHeight = n])

SetPaper == \E p \in PaperInputs : SetConfig([config EXCEPT !.paperId = p])

SetOrientation ==
    \E o \in {"portrait", "landscape"} : SetConfig([config EXCEPT !.orientation = o])

SetMargin == \E n \in MarginInputs : SetConfig([config EXCEPT !.margin = n])

SetShowCutLines ==
    \E b \in BOOLEAN : SetConfig([config EXCEPT !.showCutLines = b])

SetCutLineStyle ==
    /\ config.showCutLines
    /\ \E s \in StyleInputs : SetConfig([config EXCEPT !.cutLineStyle = s])

SetShowPageNumbers ==
    \E b \in BOOLEAN : SetConfig([config EXCEPT !.showPageNumbers = b])

\* ----------------------------------------------------------- the layers
\* x, y, width and height are fractions of the poster; fontSize is
\* style.fontSize in tenths and lines the number of lines of the content
\* of a text layer (both 0 on an image layer, which has no style)
LayerOrigin == Dec(25, 100)

LayerWidth == Dec(5, 10)

ImageHeight == Dec(5, 10)

TextHeight == Dec(2, 10)

NewLayer(id, type) ==
    [ id |-> id, type |-> type,
      x |-> LayerOrigin, y |-> LayerOrigin,
      width |-> LayerWidth,
      height |-> IF type = "image" THEN ImageHeight ELSE TextHeight,
      fontSize |-> IF type = "text" THEN 10 ELSE 0,
      lines |-> IF type = "text" THEN 1 ELSE 0 ]

\* a handleAddLayer that puts the new layer under the others
handleAddLayer_OnBottom ==
    /\ nextId <= MaxLayers
    /\ \E type \in {"image", "text"} :
          layers' = <<NewLayer(nextId, type)>> \o layers
    /\ selectedLayerId' = nextId
    /\ nextId' = nextId + 1
    /\ UNCHANGED <<config, interaction, isExporting, runs, edits, gestures, pressed>>

\* handleAddLayer, from the text button or from the FileReader's onload
handleAddLayer ==
    /\ nextId <= MaxLayers
    /\ \E type \in {"image", "text"} :
          layers' = Append(layers, NewLayer(nextId, type))
    /\ selectedLayerId' = nextId
    /\ nextId' = nextId + 1
    /\ UNCHANGED <<config, interaction, isExporting, runs, edits, gestures, pressed>>

\* updateLayer: prev.map(l => l.id === id ? { ...l, ...updates } : l), with
\* Updated(l) for { ...l, ...updates }
updateLayer(lys, id, Updated(_)) ==
    [k \in DOMAIN lys |-> IF lys[k].id = id THEN Updated(lys[k]) ELSE lys[k]]

\* what the Size input of a text layer's controls can hold, in tenths; an
\* emptied input is Number("") = 0
FontSizeInputs == {0, 5, 25}

\* lines of the content of a text layer
MaxLines == 3

\* the Size input of the selected text layer's controls
SetFontSize ==
    /\ \E k \in DOMAIN layers : \E n \in FontSizeInputs :
          /\ layers[k].id = selectedLayerId
          /\ layers[k].type = "text"
          /\ layers[k].fontSize # n
          /\ layers' = [layers EXCEPT ![k].fontSize = n]
    /\ UNCHANGED <<config, selectedLayerId, interaction, isExporting, runs, nextId,
                   edits, gestures, pressed>>

\* the textarea of the selected text layer's controls
SetContent ==
    /\ \E k \in DOMAIN layers : \E n \in 1..MaxLines :
          /\ layers[k].id = selectedLayerId
          /\ layers[k].type = "text"
          /\ layers[k].lines # n
          /\ layers' = [layers EXCEPT ![k].lines = n]
    /\ UNCHANGED <<config, selectedLayerId, interaction, isExporting, runs, nextId,
                   edits, gestures, pressed>>

\* a removeLayer that leaves the selection as it is
removeLayer_KeepsSelection ==
    /\ \E k \in DOMAIN layers : layers[k].id = selectedLayerId
    /\ layers' = SelectSeq(layers, LAMBDA l : l.id # selectedLayerId)
    /\ UNCHANGED <<config, selectedLayerId, interaction, isExporting, runs, nextId,
                   edits, gestures, pressed>>

\* removeLayer, from the trash button of the selected layer's controls
removeLayer ==
    /\ \E k \in DOMAIN layers : layers[k].id = selectedLayerId
    /\ layers' = SelectSeq(layers, LAMBDA l : l.id # selectedLayerId)
    /\ selectedLayerId' = NullId
    /\ UNCHANGED <<config, interaction, isExporting, runs, nextId, edits,
                   gestures, pressed>>

\* a click on a row of the All Layers list
selectLayer ==
    /\ \E k \in DOMAIN layers : selectedLayerId' = layers[k].id
    /\ UNCHANGED <<config, layers, interaction, isExporting, runs, nextId, edits,
                   gestures, pressed>>

\* ----------------------------------------------------------- the canvas
\* clientX and clientY of the mouse events, in pixels
PointerInputs == {0, 200}

Pointers == [x : PointerInputs, y : PointerInputs]

\* gestures in one behaviour of CanvasSpec
MaxGestures == 1

\* the zoom the editor starts with; the zoom buttons are left out
zoom == Dec(5, 10)

MIN_SIZE == Dec(1, 100)

\* paperWidth and paperHeight: the paper in config.unit
PaperInUnit(cfg, number) ==
    IF cfg.unit = "in" THEN [width |-> number.widthIn, height |-> number.heightIn]
    ELSE [width |-> number.width, height |-> number.height]

\* pWidth and pHeight: the paper as it is oriented
Oriented(cfg, paper) ==
    IF cfg.orientation = "portrait"
    THEN [pWidth |-> paper.width, pHeight |-> paper.height]
    ELSE [pWidth |-> paper.height, pHeight |-> paper.width]

\* printW and printH, for margin2 = config.margin * 2
Printable(p, margin2) ==
    [ pWidth |-> p.pWidth, pHeight |-> p.pHeight,
      printW |-> FSub(p.pWidth, margin2), printH |-> FSub(p.pHeight, margin2) ]

\* the oriented paper and its printable area, as generateTiledPDF and the
\* render of CanvasWorkspace both compute them
PrintableArea(cfg, paperSize) ==
    Printable(Oriented(cfg, PaperInUnit(cfg, PaperNumber[paperSize.id])),
              FMul(Num(cfg.margin), FromInt(2)))

\* the poster: the grid times the printable area in grid mode, the target
\* size otherwise
PosterSize(cfg, area) ==
    IF cfg.mode = "grid"
    THEN [ width |-> FMul(FromInt(cfg.gridCols), area.printW),
           height |-> FMul(FromInt(cfg.gridRows), area.printH) ]
    ELSE [ width |-> Num(cfg.targetWidth), height |-> Num(cfg.targetHeight) ]

\* visualW and visualH
Scaled(poster, displayScale) ==
    [ visualW |-> FMul(poster.width, displayScale),
      visualH |-> FMul(poster.height, displayScale) ]

\* the render of CanvasWorkspace: the size of the poster on the screen in
\* logical pixels
Visual(cfg, paperSize) ==
    Scaled(PosterSize(cfg, PrintableArea(cfg, paperSize)),
           IF cfg.unit = "in" THEN MmPerInch ELSE FromInt(1))

\* Math.ceil of a number that can be Infinity or NaN, as a number
NumCeil(a) == IF IsNaN(a) \/ IsInfinite(a) THEN a ELSE FromInt(FCeil(a))

\* cols and rows of the render: the grid's in grid mode, and
\* Math.ceil(posterDisplayWidth / printW), Math.ceil(posterDisplayHeight /
\* printH) otherwise
EditorGrid(cfg, area, poster) ==
    [ printW |-> area.printW, printH |-> area.printH,
      posterWidth |-> poster.width, posterHeight |-> poster.height,
      cols |-> IF cfg.mode = "grid" THEN FromInt(cfg.gridCols)
               ELSE NumCeil(NumDiv(poster.width, area.printW)),
      rows |-> IF cfg.mode = "grid" THEN FromInt(cfg.gridRows)
               ELSE NumCeil(NumDiv(poster.height, area.printH)) ]

EditorResolved(cfg, area) == EditorGrid(cfg, area, PosterSize(cfg, area))

\* the render of CanvasWorkspace: the printable area, the poster and the
\* grid of the overlay
EditorLayout(cfg, paperSize) == EditorResolved(cfg, PrintableArea(cfg, paperSize))

\* handleMouseDown on a layer's element (handle None) or on one of the
\* four handles, which only the selected layer shows
handleMouseDown ==
    /\ gestures < MaxGestures
    /\ \E k \in DOMAIN layers : \E handle \in {None, "nw", "ne", "sw", "se"} :
       \E pos \in Pointers :
          /\ handle # None => selectedLayerId = layers[k].id
          /\ selectedLayerId' = layers[k].id
          /\ pressed' = layers[k].id
          /\ interaction' = [ mode |-> IF handle # None THEN "resizing" ELSE "moving",
                              activeHandle |-> handle,
                              startMouse |-> pos,
                              startLayer |-> <<layers[k]>> ]
    /\ gestures' = gestures + 1
    /\ UNCHANGED <<config, layers, isExporting, runs, nextId, edits>>

\* deltaX / visualW and deltaY / visualH
DeltaPct(deltaX, deltaY, visual) ==
    [ x |-> NumDiv(deltaX, visual.visualW), y |-> NumDiv(deltaY, visual.visualH) ]

\* deltaXPct and deltaYPct of handleMouseMove for a pointer at pos
PointerDelta(cfg, inter, pos) ==
    DeltaPct(NumDiv(FromInt(pos.x - inter.startMouse.x), zoom),
             NumDiv(FromInt(pos.y - inter.startMouse.y), zoom),
             Visual(cfg, selectedPaper(cfg)))

\* a handle on the east side: newX and newW
EastEdge(start, dx) ==
    [ x |-> start.x, width |-> MathMax(MIN_SIZE, NumAdd(start.width, dx)) ]

\* a handle on the south side: newY and newH
SouthEdge(start, dy) ==
    [ y |-> start.y, height |-> MathMax(MIN_SIZE, NumAdd(start.height, dy)) ]

\* a handle on the west side, proposedW being startLayer.width - deltaXPct
WestEdge(start, proposedW, dx) ==
    IF NumLt(proposedW, MIN_SIZE)
    THEN [ x |-> NumSub(NumAdd(start.x, start.width), MIN_SIZE), width |-> MIN_SIZE ]
    ELSE [ x |-> NumAdd(start.x, dx), width |-> proposedW ]

\* a handle on the north side, proposedH being startLayer.height - deltaYPct
NorthEdge(start, proposedH, dy) ==
    IF NumLt(proposedH, MIN_SIZE)
    THEN [ y |-> NumSub(NumAdd(start.y, start.height), MIN_SIZE), height |-> MIN_SIZE ]
    ELSE [ y |-> NumAdd(start.y, dy), height |-> proposedH ]

\* newX, newY, newW, newH
Geometry(across, down) ==
    [ x |-> across.x, y |-> down.y, width |-> across.width, height |-> down.height ]

\* the switch on activeHandle
ResizeGeometry(handle, start, dx, dy) ==
    CASE handle = "se" ->
           Geometry(EastEdge(start, dx), SouthEdge(start, dy))
      [] handle = "sw" ->
           Geometry(WestEdge(start, NumSub(start.width, dx), dx), SouthEdge(start, dy))
      [] handle = "ne" ->
           Geometry(EastEdge(start, dx), NorthEdge(start, NumSub(start.height, dy), dy))
      [] handle = "nw" ->
           Geometry(WestEdge(start, NumSub(start.width, dx), dx),
                    NorthEdge(start, NumSub(start.height, dy), dy))

\* { ...l, x, y, width, height }
Resized(l, g) ==
    [l EXCEPT !.x = g.x, !.y = g.y, !.width = g.width, !.height = g.height]

\* a pointer-move that applies the pointer's displacement to the layer as
\* it is, not to the snapshot
PointerUpdate_FromCurrent(inter, delta, l) ==
    IF inter.mode = "moving"
    THEN [l EXCEPT !.x = NumAdd(l.x, delta.x), !.y = NumAdd(l.y, delta.y)]
    ELSE Resized(l, ResizeGeometry(inter.activeHandle, l, delta.x, delta.y))

\* { ...l, ...updates } for the updates handleMouseMove sends
PointerUpdate(inter, delta, l) ==
    IF inter.mode = "moving"
    THEN [l EXCEPT !.x = NumAdd(inter.startLayer[1].x, delta.x),
                   !.y = NumAdd(inter.startLayer[1].y, delta.y)]
    ELSE Resized(l, ResizeGeometry(inter.activeHandle, inter.startLayer[1],
                                   delta.x, delta.y))

\* the layers after handleMouseMove for a pointer whose displacement is
\* delta
AfterMove(inter, selected, lys, delta) ==
    IF inter.mode = "none" \/ inter.startLayer = <<>> \/ selected = NullId THEN lys
    ELSE updateLayer(lys, selected, LAMBDA l : PointerUpdate(inter, delta, l))

handleMouseMove(pos) ==
    /\ layers' = AfterMove(interaction, selectedLayerId, layers,
                           PointerDelta(config, interaction, pos))
    /\ UNCHANGED <<config, selectedLayerId, interaction, isExporting, runs, nextId, edits,
                   gestures, pressed>>

PointerMove == \E pos \in Pointers : handleMouseMove(pos)

\* a handleMouseUp that resets the mode and keeps the rest of the gesture
handleMouseUp_KeepsSnapshot ==
    /\ interaction' = [interaction EXCEPT !.mode = "none"]
    /\ \E event \in {"mouseup", "mouseleave"} :
          pressed' = IF event = "mouseup" THEN pressed ELSE NullId
    /\ UNCHANGED <<config, layers, selectedLayerId, isExporting, runs, nextId, edits,
                   gestures>>

\* handleMouseUp, on mouseup and on mouseleave.  A button released inside
\* the container ends in a click; a pointer that has left the container
\* ends in none the container sees.
handleMouseUp ==
    /\ interaction' = NoInteraction
    /\ \E event \in {"mouseup", "mouseleave"} :
          pressed' = IF event = "mouseup" THEN pressed ELSE NullId
    /\ UNCHANGED <<config, layers, selectedLayerId, isExporting, runs, nextId, edits,
                   gestures>>

\* the container's onClick.  A click follows a mouseup; no element inside
\* the container handles click or stops it, so the click that ends a press
\* on a layer's element (pressed is the layer) reaches this handler as a
\* click on the empty background (pressed is null) does.
handleContainerClick ==
    /\ interaction.mode = "none"
    /\ selectedLayerId' = NullId
    /\ pressed' = NullId
    /\ UNCHANGED <<config, layers, interaction, isExporting, runs, nextId, edits,
                   gestures>>

\* the editor with the canvas: the grid fields, the layers and the gestures
CanvasNext ==
    \/ SetGridRows
    \/ SetGridCols
    \/ handleAddLayer
    \/ removeLayer
    \/ selectLayer
    \/ handleMouseDown
    \/ PointerMove
    \/ handleMouseUp
    \/ handleContainerClick

CanvasSpec == Init /\ [][CanvasNext]_vars

\* ------------------------------------------------------------ the export
\* cols, rows and the canvas of a poster on a printable area
Grid(area, poster, scale) ==
    [ throws |-> FALSE, pWidth |-> area.pWidth, pHeight |-> area.pHeight,
      printW |-> area.printW, printH |-> area.printH,
      posterWidth |-> poster.width, posterHeight |-> poster.height,
      cols |-> FCeil(FDiv(poster.width, area.printW)),
      rows |-> FCeil(FDiv(poster.height, area.printH)),
      scale |-> scale,
      canvasWidth |-> FCeil(FMul(poster.width, FromInt(scale))),
      canvasHeight |-> FCeil(FMul(poster.height, FromInt(scale))) ]

\* the margin check and, past it, the poster and the grid
Resolved(cfg, area) ==
    IF FSign(area.printW) <= 0 \/ FSign(area.printH) <= 0
    THEN [ throws |-> TRUE, pWidth |-> area.pWidth, pHeight |-> area.pHeight,
           printW |-> area.printW, printH |-> area.printH ]
    ELSE Grid(area, PosterSize(cfg, area), IF cfg.unit = "in" THEN 120 ELSE 5)

\* generateTiledPDF up to the first statement that draws: the oriented
\* paper, the printable area, the poster and the grid, all in config.unit.
\* throws is the Error of the margin check.
Layout(cfg, paperSize) == Resolved(cfg, PrintableArea(cfg, paperSize))

\* an extent ext from src that is px pixels of the canvas
Sized(src, ext, px) == [src |-> src, ext |-> ext, px |-> px, positive |-> FSign(px) > 0]

\* srcW (srcH) of the page whose srcX (srcY) is src, sw (sh) and whether
\* sw > 0 (sh > 0)
Extent(src, ext, scale) == Sized(src, ext, FMul(ext, FromInt(scale)))

StripFrom(src, print, poster, scale) ==
    Extent(src, FMin(print, FSub(poster, src)), scale)

\* the part of the poster one column (one row) of pages shows: its origin
\* and its extent along the axis
Strip(k, print, poster, scale) == StripFrom(FMul(FromInt(k), print), print, poster, scale)

\* the page with its guides and its label inside the test of sw and sh
Page_BareWhenEmpty(cfg, loc, r, c, colStrip, rowStrip) ==
    [ row |-> r, col |-> c,
      width |-> loc.pWidth, height |-> loc.pHeight,
      destX |-> cfg.margin, destY |-> cfg.margin,
      srcX |-> colStrip.src, srcY |-> rowStrip.src,
      srcW |-> colStrip.ext, srcH |-> rowStrip.ext,
      sw |-> colStrip.px, sh |-> rowStrip.px,
      image |-> colStrip.positive /\ rowStrip.positive,
      imageX |-> cfg.margin, imageY |-> cfg.margin,
      imageW |-> colStrip.ext, imageH |-> rowStrip.ext,
      outline |-> /\ colStrip.positive /\ rowStrip.positive
                  /\ cfg.showCutLines /\ cfg.cutLineStyle # "none",
      rectX |-> cfg.margin, rectY |-> cfg.margin,
      rectW |-> colStrip.ext, rectH |-> rowStrip.ext,
      marks |-> IF cfg.showCutLines /\ cfg.cutLineStyle # "none"
                THEN {"topLeft", "bottomRight"} ELSE {},
      label |-> IF colStrip.positive /\ rowStrip.positive /\ cfg.showPageNumbers
                THEN <<r + 1, c + 1>> ELSE <<>> ]

\* the page with every tile stretched over the printable area
Page_FillsPrintable(cfg, loc, r, c, colStrip, rowStrip) ==
    [ row |-> r, col |-> c,
      width |-> loc.pWidth, height |-> loc.pHeight,
      destX |-> cfg.margin, destY |-> cfg.margin,
      srcX |-> colStrip.src, srcY |-> rowStrip.src,
      srcW |-> colStrip.ext, srcH |-> rowStrip.ext,
      sw |-> colStrip.px, sh |-> rowStrip.px,
      image |-> colStrip.positive /\ rowStrip.positive,
      imageX |-> cfg.margin, imageY |-> cfg.margin,
      imageW |-> loc.printW, imageH |-> loc.printH,
      outline |-> cfg.showCutLines /\ cfg.cutLineStyle # "none",
      rectX |-> cfg.margin, rectY |-> cfg.margin,
      rectW |-> colStrip.ext, rectH |-> rowStrip.ext,
      marks |-> IF cfg.showCutLines /\ cfg.cutLineStyle # "none"
                THEN {"topLeft", "bottomRight"} ELSE {},
      label |-> IF cfg.showPageNumbers THEN <<r + 1, c + 1>> ELSE <<>> ]

\* the page the loop body emits for row r and column c: the page added,
\* the tile canvas sw x sh and addImage(tileData, destX, destY, srcW, srcH)
\* when sw > 0 and sh > 0, doc.rect(destX, destY, srcW, srcH) and the
\* scissor marks when cut lines are on, the label when page numbers are
Page(cfg, loc, r, c, colStrip, rowStrip) ==
    [ row |-> r, col |-> c,
      width |-> loc.pWidth, height |-> loc.pHeight,
      destX |-> cfg.margin, destY |-> cfg.margin,
      srcX |-> colStrip.src, srcY |-> rowStrip.src,
      srcW |-> colStrip.ext, srcH |-> rowStrip.ext,
      sw |-> colStrip.px, sh |-> rowStrip.px,
      image |-> colStrip.positive /\ rowStrip.positive,
      imageX |-> cfg.margin, imageY |-> cfg.margin,
      imageW |-> colStrip.ext, imageH |-> rowStrip.ext,
      outline |-> cfg.showCutLines /\ cfg.cutLineStyle # "none",
      rectX |-> cfg.margin, rectY |-> cfg.margin,
      rectW |-> colStrip.ext, rectH |-> rowStrip.ext,
      marks |-> IF cfg.showCutLines /\ cfg.cutLineStyle # "none"
                THEN {"topLeft", "bottomRight"} ELSE {},
      label |-> IF cfg.showPageNumbers THEN <<r + 1, c + 1>> ELSE <<>> ]

RECURSIVE Strips(_, _, _, _, _)
\* the strips of columns (rows) k .. n - 1
Strips(k, n, print, poster, scale) ==
    IF k >= n THEN <<>>
    ELSE <<Strip(k, print, poster, scale)>> \o Strips(k + 1, n, print, poster, scale)

\* the loop with the columns outside and the rows inside
PageRowCol_ColumnMajor(k, rows, cols) == [r |-> (k - 1) % rows, c |-> (k - 1) \div rows]

\* for (r < rows) for (c < cols): the row and the column of the k-th pass
\* through the loop body
PageRowCol(k, rows, cols) == [r |-> (k - 1) \div cols, c |-> (k - 1) % cols]

\* the page of the k-th pass, at row at.r and column at.c
PageAt(cfg, loc, at, colStrip, rowStrip) ==
    Page(cfg, loc, at.r, at.c, colStrip[at.c + 1], rowStrip[at.r + 1])

\* the pages, given the strips of the columns and of the rows
PagesOf(cfg, loc, colStrip, rowStrip) ==
    [k \in 1..(loc.rows * loc.cols) |->
        PageAt(cfg, loc, PageRowCol(k, loc.rows, loc.cols), colStrip, rowStrip)]

\* for (r < rows) for (c < cols) doc.addPage ...: the pages in the order
\* they are added
Pages(cfg, loc) ==
    IF loc.rows <= 0 \/ loc.cols <= 0 THEN <<>>
    ELSE PagesOf(cfg, loc,
                 Strips(0, loc.cols, loc.printW, loc.posterWidth, loc.scale),
                 Strips(0, loc.rows, loc.printH, loc.posterHeight, loc.scale))

\* one call on the document, made while page k is the current page (k = 0:
\* before the first page or after the last)
Call(op, k) == [op |-> op, page |-> k]

\* the loop body with the page number written before the tile is placed
PageCalls_LabelFirst(k, page) ==
    <<Call("addPage", k)>>
    \o (IF page.label # <<>> THEN <<Call("text", k)>> ELSE <<>>)
    \o (IF page.image THEN <<Call("addImage", k)>> ELSE <<>>)
    \o (IF page.outline
        THEN <<Call("setLineStyle", k), Call("rect", k), Call("setLineStyle", k),
               Call("line", k), Call("line", k), Call("line", k), Call("line", k)>>
        ELSE <<>>)

\* the calls of one pass through the loop body, in the order of the
\* statements: doc.addPage, doc.addImage inside the test of sw and sh, the
\* line style, doc.rect, the style of the marks and the four doc.line
\* inside the test of the cut lines, doc.text inside the test of the page
\* numbers
PageCalls(k, page) ==
    <<Call("addPage", k)>>
    \o (IF page.image THEN <<Call("addImage", k)>> ELSE <<>>)
    \o (IF page.outline
        THEN <<Call("setLineStyle", k), Call("rect", k), Call("setLineStyle", k),
               Call("line", k), Call("line", k), Call("line", k), Call("line", k)>>
        ELSE <<>>)
    \o (IF page.label # <<>> THEN <<Call("text", k)>> ELSE <<>>)

\* new jsPDF, doc.deletePage(1), the loop over the pages, doc.save
SinkCalls(pages) ==
    LET from[k \in 1..(Len(pages) + 1)] ==
            IF k > Len(pages) THEN <<Call("save", 0)>>
            ELSE PageCalls(k, pages[k]) \o from[k + 1]
    IN  <<Call("newDocument", 0), Call("deletePage", 0)>> \o from[1]

\* the part of generateTiledPDF after the layer loop
Finish(run, pages) ==
    [run EXCEPT !.pc = "done", !.pages = pages, !.calls = SinkCalls(pages),
                !.saved = TRUE]

\* layer.style?.fontSize || 1
FontScale(layer) == IF layer.fontSize = 0 THEN FromInt(1) ELSE Dec(layer.fontSize, 10)

\* the fillText calls of a text layer: line i at ly + (i * fontSize * 1.2)
TextLines(id, fontSize, n) ==
    [ id |-> id, fontSize |-> fontSize,
      offsets |-> [i \in 1..n |-> FMul(FMul(FromInt(i - 1), fontSize), Dec(12, 10))] ]

\* the text of a layer on a canvas canvasHeight high: fontSize is
\* (canvas.height * 0.05) * (layer.style?.fontSize || 1)
DrawText(layer, canvasHeight) ==
    TextLines(layer.id,
              FMul(FMul(FromInt(canvasHeight), Dec(5, 100)), FontScale(layer)),
              layer.lines)

\* the ids of the text layers after layer i
LaterTexts(lys, i) ==
    LET later == SelectSeq(SubSeq(lys, i + 1, Len(lys)), LAMBDA l : l.type = "text")
    IN  [k \in DOMAIN later |-> later[k].id]

\* the loop that, at an image it has to wait for, draws the text layers
\* after it before it waits
RECURSIVE DrawLayers_SkipsAhead(_)
DrawLayers_SkipsAhead(run) ==
    IF run.i > Len(run.layers)
    THEN Finish(run, Pages(run.config, run.loc))
    ELSE IF run.layers[run.i].type = "image"
    THEN [run EXCEPT !.pc = "await", !.drawn = @ \o LaterTexts(run.layers, run.i)]
    ELSE DrawLayers_SkipsAhead([run EXCEPT !.drawn = Append(@, run.layers[run.i].id),
                                           !.i = @ + 1])

\* One invocation of generateTiledPDF: its arguments, its locals, the
\* index i of the layer the loop is at, what has been drawn on the canvas,
\* the pages of the document, the calls made on it and whether doc.save
\* was called.
\*   texts: the font size and the line offsets of each text layer drawn
\*   pc = "await": suspended at the await of layer i's image
\*   pc = "done":  returned;  pc = "failed": threw
RECURSIVE DrawLayers(_)
DrawLayers(run) ==
    IF run.i > Len(run.layers)
    THEN Finish(run, Pages(run.config, run.loc))
    ELSE IF run.layers[run.i].type = "image"
    THEN [run EXCEPT !.pc = "await"]
    ELSE DrawLayers([run EXCEPT
                        !.drawn = Append(@, run.layers[run.i].id),
                        !.texts = Append(@, DrawText(run.layers[run.i], run.loc.canvasHeight)),
                        !.i = @ + 1])

NewRun(cfg, lys, paperSize) ==
    [ pc |-> "start", config |-> cfg, layers |-> lys, paper |-> paperSize.id,
      loc |-> Layout(cfg, paperSize), i |-> 1, drawn |-> <<>>, texts |-> <<>>,
      pages |-> <<>>, calls |-> <<>>, saved |-> FALSE, error |-> None ]

\* the margin check placed after the first layer is drawn
RunLate(run) ==
    IF run.loc.throws
    THEN [run EXCEPT !.pc = "failed", !.error = "margins",
                     !.drawn = IF run.layers = <<>> THEN <<>>
                               ELSE <<run.layers[1].id>>]
    ELSE DrawLayers(run)

generateTiledPDF_ChecksLate(cfg, lys, paperSize) == RunLate(NewRun(cfg, lys, paperSize))

\* the margin check, then the layers
Run(run) ==
    IF run.loc.throws THEN [run EXCEPT !.pc = "failed", !.error = "margins"]
    ELSE DrawLayers(run)

\* the call, run to its first await, its return or its throw
generateTiledPDF(cfg, lys, paperSize) == Run(NewRun(cfg, lys, paperSize))

\* a continuation that reads the config of the editor again
Resume_ReadsConfigAgain(run, outcome) ==
    IF outcome = "error" THEN [run EXCEPT !.pc = "failed", !.error = "image"]
    ELSE DrawLayers([run EXCEPT !.config = config,
                                !.loc = Layout(config, selectedPaper(config)),
                                !.drawn = Append(@, run.layers[run.i].id), !.i = @ + 1])

\* the continuation after the await of layer i's image: drawImage throws
\* on an image whose load failed
Resume(run, outcome) ==
    IF outcome = "error" THEN [run EXCEPT !.pc = "failed", !.error = "image"]
    ELSE DrawLayers([run EXCEPT !.drawn = Append(@, run.layers[run.i].id), !.i = @ + 1])

IsLive(run) == run.pc = "await"

LiveRuns == SelectSeq(runs, IsLive)

\* handleExport behind a button that is never disabled
handleExport_NoGuard ==
    /\ Len(LiveRuns) < MaxRuns
    /\ \E run \in {generateTiledPDF(config, layers, selectedPaper(config))} :
          /\ runs' = Append(LiveRuns, run)
          /\ isExporting' = (isExporting \/ IsLive(run))
    /\ UNCHANGED <<config, layers, selectedLayerId, interaction, nextId, edits,
                   gestures, pressed>>

\* handleExport, run from the click to the first await; its catch and its
\* finally run before the next event when the call never suspends.  The
\* button is disabled while isExporting.  runs keeps the calls that have
\* not returned and the outcome of the last one that has.
handleExport ==
    /\ ~isExporting
    /\ Len(LiveRuns) < MaxRuns
    /\ \E run \in {generateTiledPDF(config, layers, selectedPaper(config))} :
          /\ runs' = Append(LiveRuns, run)
          /\ isExporting' = IsLive(run)
    /\ UNCHANGED <<config, layers, selectedLayerId, interaction, nextId, edits,
                   gestures, pressed>>

\* the image event with a handleExport that has no finally
ImageReady_NoFinally ==
    \E n \in DOMAIN runs : \E outcome \in {"load", "error"} :
        /\ IsLive(runs[n])
        /\ \E run \in {Resume(runs[n], outcome)} :
              /\ runs' = [runs EXCEPT ![n] = run]
              /\ isExporting' = isExporting
        /\ UNCHANGED <<config, layers, selectedLayerId, interaction, nextId, edits,
                       gestures, pressed>>

\* the image of a suspended call loads or fails to load; the call runs to
\* its next await or to its end, and handleExport's finally follows
ImageReady ==
    \E n \in DOMAIN runs : \E outcome \in {"load", "error"} :
        /\ IsLive(runs[n])
        /\ \E run \in {Resume(runs[n], outcome)} :
              /\ runs' = [runs EXCEPT ![n] = run]
              /\ isExporting' = IF IsLive(run) THEN isExporting ELSE FALSE
        /\ UNCHANGED <<config, layers, selectedLayerId, interaction, nextId, edits,
                       gestures, pressed>>

Next ==
    \/ toggleUnit
    \/ SetMode
    \/ SetGridRows
    \/ SetGridCols
    \/ SetPaper
    \/ SetOrientation
    \/ SetMargin
    \/ SetShowCutLines
    \/ SetCutLineStyle
    \/ SetShowPageNumbers
    \/ handleAddLayer
    \/ handleExport
    \/ ImageReady

Spec == Init /\ [][Next]_vars

\* ------------------------------------------- the export on given inputs
\* Configs the settings panel can produce, one layer of each type, and
\* the export applied to them.
LayoutMargins(unit) ==
    IF unit = "in" THEN {-100, 100, 500, 4250} ELSE {0, 20000, 110000}

LayoutTargets(unit) ==
    IF unit = "in" THEN {0, 36000} ELSE {500000, 1197000}

LayoutGrids == {0, 1, 3, 21}

LayoutConfigs ==
    { [DefaultConfig EXCEPT !.unit = u, !.orientation = o, !.margin = m,
                            !.mode = "grid", !.gridRows = gr, !.gridCols = gc] :
        u \in {"in", "mm"}, o \in {"portrait", "landscape"},
        m \in {-100, 0, 100, 500, 4250, 20000, 110000},
        gr \in LayoutGrids, gc \in {1, 3} }
    \cup
    { [DefaultConfig EXCEPT !.unit = u, !.orientation = o, !.margin = m,
                            !.mode = "size", !.targetWidth = tw, !.targetHeight = th] :
        u \in {"in", "mm"}, o \in {"portrait", "landscape"},
        m \in {-100, 0, 100, 500, 4250, 20000, 110000},
        tw \in {0, 36000, 500000}, th \in {48000, 1197000} }

LayoutInit ==
    /\ config \in {c \in LayoutConfigs :
                      /\ c.margin \in LayoutMargins(c.unit)
                      /\ c.mode = "size" =>
                            /\ c.targetWidth \in LayoutTargets(c.unit)
                            /\ c.targetHeight \in LayoutTargets(c.unit) \cup {48000}}
    /\ layers = <<NewLayer(1, "text"), NewLayer(2, "image")>>
    /\ selectedLayerId = 2
    /\ interaction = NoInteraction
    /\ isExporting = FALSE
    /\ runs = <<>>
    /\ nextId = 3
    /\ edits = 0
    /\ gestures = 0
    /\ pressed = NullId

LayoutNext ==
    \/ SetTargetWidth
    \/ SetTargetHeight
    \/ handleExport
    \/ ImageReady

LayoutSpec == LayoutInit /\ [][LayoutNext]_vars

\* -------------------------------------------- the unit toggle on given inputs
\* physical values the fields can hold, some with three decimals
MaxUnitValue == 60

UnitInit ==
    /\ \E k \in 0..MaxUnitValue : \E u \in {"mm", "in"} :
          config = [DefaultConfig EXCEPT !.unit = u,
                                         !.targetWidth = 10 * k,
                                         !.targetHeight = 1000 + 381 * k,
                                         !.margin = 127 * k,
                                         !.overlap = 5 * k]
    /\ layers = <<>>
    /\ selectedLayerId = NullId
    /\ interaction = NoInteraction
    /\ isExporting = FALSE
    /\ runs = <<>>
    /\ nextId = 1
    /\ edits = 0
    /\ gestures = 0
    /\ pressed = NullId

UnitNext == toggleUnit

UnitSpec == UnitInit /\ [][UnitNext]_vars

\* --------------------------------------- the export on given layer lists
\* layers in the list of an exported poster
MaxComposed == 3

\* the lists of n layers, with ids 1 .. n in the order they were added
LayerLists(n) ==
    { [k \in 1..n |-> NewLayer(k, types[k])] : types \in [1..n -> {"image", "text"}] }

ComposeInit ==
    /\ \E o \in {"portrait", "landscape"} :
          config = [DefaultConfig EXCEPT !.orientation = o]
    /\ \E n \in 0..MaxComposed : layers \in LayerLists(n)
    /\ selectedLayerId = NullId
    /\ interaction = NoInteraction
    /\ isExporting = FALSE
    /\ runs = <<>>
    /\ nextId = Len(layers) + 1
    /\ edits = 0
    /\ gestures = 0
    /\ pressed = NullId

ComposeNext ==
    \/ handleExport
    \/ ImageReady

ComposeSpec == ComposeInit /\ [][ComposeNext]_vars

\* every image a call waits for reports load or error in the end
ComposeFairSpec == ComposeSpec /\ WF_vars(ImageReady)

\* ------------------------------------------- the paper of given configs
\* values of config.paperId: the ids of the table and two that are not
PaperIdValues == PaperIds \cup {"b5", ""}

PaperInit ==
    /\ \E id \in PaperIdValues : \E u \in {"in", "mm"} :
       \E o \in {"portrait", "landscape"} :
          config = [DefaultConfig EXCEPT !.paperId = id, !.unit = u, !.orientation = o]
    /\ layers = <<NewLayer(1, "image")>>
    /\ selectedLayerId = 1
    /\ interaction = NoInteraction
    /\ isExporting = FALSE
    /\ runs = <<>>
    /\ nextId = 2
    /\ edits = 0
    /\ gestures = 0
    /\ pressed = NullId

PaperNext ==
    \/ SetPaper
    \/ handleExport
    \/ ImageReady

PaperSpec == PaperInit /\ [][PaperNext]_vars

\* ---------------------------------------------- the text of given layers
\* a poster whose canvas is 1000 pixels high: 200 mm at 5 pixels a
\* millimetre
SmallPoster ==
    [DefaultConfig EXCEPT !.unit = "mm", !.mode = "size",
                          !.targetWidth = 100000, !.targetHeight = 200000]

TextInit ==
    /\ \E c \in {DefaultConfig, SmallPoster} : \E o \in {"portrait", "landscape"} :
          config = [c EXCEPT !.orientation = o]
    /\ layers = <<NewLayer(1, "text")>>
    /\ selectedLayerId = 1
    /\ interaction = NoInteraction
    /\ isExporting = FALSE
    /\ runs = <<>>
    /\ nextId = 2
    /\ edits = 0
    /\ gestures = 0
    /\ pressed = NullId

TextNext ==
    \/ SetFontSize
    \/ SetContent
    \/ handleExport

TextSpec == TextInit /\ [][TextNext]_vars

\* ------------------------------------------------- the stack of layers
\* The editor with layers added earlier (their ids stand for the UUIDs
\* crypto.randomUUID gave them), one more to add and the canvas.
EarlierLayers(n) ==
    { [k \in 1..n |-> NewLayer(k - n - 1, types[k])] :
          types \in [1..n -> {"image", "text"}] }

StackInit ==
    /\ config = DefaultConfig
    /\ layers \in {lys \in EarlierLayers(1) : lys[1].type = "text"}
    /\ selectedLayerId = NullId
    /\ interaction = NoInteraction
    /\ isExporting = FALSE
    /\ runs = <<>>
    /\ nextId = 1
    /\ edits = 0
    /\ gestures = 0
    /\ pressed = NullId

StackNext ==
    \/ handleAddLayer
    \/ removeLayer
    \/ selectLayer
    \/ handleMouseDown
    \/ PointerMove
    \/ handleMouseUp
    \/ handleContainerClick

StackSpec == StackInit /\ [][StackNext]_vars

\* Two earlier layers with the layer controls, a setting and the export.
EditInit ==
    /\ config = DefaultConfig
    /\ layers \in {lys \in EarlierLayers(2) : lys[1].type = "text" /\ lys[2].type = "image"}
    /\ selectedLayerId = layers[1].id
    /\ interaction = NoInteraction
    /\ isExporting = FALSE
    /\ runs = <<>>
    /\ nextId = 1
    /\ edits = 0
    /\ gestures = 0
    /\ pressed = NullId

EditNext ==
    \/ SetOrientation
    \/ handleAddLayer
    \/ SetContent
    \/ removeLayer
    \/ selectLayer
    \/ handleExport
    \/ ImageReady

EditSpec == EditInit /\ [][EditNext]_vars

\* ------------------------------------------------------------ the claims
\* What the claims speak of, in exact arithmetic on the decimals of the
\* config and of the paper table.

\* the oriented paper, in tenths of a millimetre
OrientedPaper(cfg) ==
    LET p == selectedPaper(cfg)
    IN  IF cfg.orientation = "portrait" THEN [width |-> p.width, height |-> p.height]
        ELSE [width |-> p.height, height |-> p.width]

\* paper extent d (tenths of a millimetre) minus twice the margin, as the
\* numerator of a fraction of the unit with denominator PrintDen
PrintNum(cfg, d) ==
    IF cfg.unit = "in" THEN d * 1000 - 508 * cfg.margin ELSE d * 100 - 2 * cfg.margin

PrintDen(cfg) == IF cfg.unit = "in" THEN 254000 ELSE 1000

NoPrintableArea(cfg) ==
    \/ PrintNum(cfg, OrientedPaper(cfg).width) <= 0
    \/ PrintNum(cfg, OrientedPaper(cfg).height) <= 0

ValidConfig(cfg) ==
    /\ cfg.gridRows \in 1..20
    /\ cfg.gridCols \in 1..20
    /\ cfg.margin >= 0
    /\ cfg.targetWidth > 0
    /\ cfg.targetHeight > 0
    /\ ~NoPrintableArea(cfg)

\* ceil(target / printable extent) for a target in thousandths of the unit
TilesAcross(cfg, target, d) ==
    LET num == target * (PrintDen(cfg) \div 1000)
        den == PrintNum(cfg, d)
    IN  (num + den - 1) \div den

RunSet == {runs[n] : n \in DOMAIN runs}

DoneRuns == {run \in RunSet : run.pc = "done"}

\* C1: when the margin leaves no printable area along the width or the
\* height of the oriented paper, the export fails with the margin error
\* before anything is rasterized: no layer is drawn, no page is added and
\* the document is never saved.
C1_NoPrintableAreaFailsEarly ==
    \A run \in RunSet :
        NoPrintableArea(run.config) =>
            /\ run.pc = "failed"
            /\ run.error = "margins"
            /\ run.drawn = <<>>
            /\ run.pages = <<>>
            /\ ~run.saved

\* an export of a poster with layers has been refused for its margin
C1_Witness ==
    \E run \in RunSet :
        /\ NoPrintableArea(run.config)
        /\ run.layers # <<>>
        /\ run.pc = "failed"

\* C2: in GRID mode with a valid config the export lays out exactly
\* gridCols columns and gridRows rows, and no tile is partial: every page
\* carries a tile as wide and as high as the printable area.
C2_GridLayoutExact ==
    \A run \in DoneRuns :
        (run.config.mode = "grid" /\ ValidConfig(run.config)) =>
            /\ run.loc.cols = run.config.gridCols
            /\ run.loc.rows = run.config.gridRows
            /\ \A k \in DOMAIN run.pages :
                  /\ run.pages[k].image
                  /\ run.pages[k].srcW = run.loc.printW
                  /\ run.pages[k].srcH = run.loc.printH

\* C3: in SIZE mode with a valid config the number of columns is
\* ceil(targetWidth / printW), every column before the last is printW
\* wide and the last column's width is positive and at most printW; the
\* same along the rows.
C3_SizeTiles ==
    \A run \in DoneRuns :
        (run.config.mode = "size" /\ ValidConfig(run.config)) =>
            /\ run.loc.cols =
                  TilesAcross(run.config, run.config.targetWidth, OrientedPaper(run.config).width)
            /\ run.loc.rows =
                  TilesAcross(run.config, run.config.targetHeight, OrientedPaper(run.config).height)
            /\ \A k \in DOMAIN run.pages :
                  LET pg == run.pages[k]
                  IN  /\ pg.col < run.loc.cols - 1 => pg.srcW = run.loc.printW
                      /\ pg.row < run.loc.rows - 1 => pg.srcH = run.loc.printH
                      /\ FSign(pg.srcW) > 0 /\ FLe(pg.srcW, run.loc.printW)
                      /\ FSign(pg.srcH) > 0 /\ FLe(pg.srcH, run.loc.printH)

\* the pages of a run come in row-major order, one for every cell of the
\* rows x cols grid
RowMajor(run) ==
    /\ {<<run.pages[k].row, run.pages[k].col>> : k \in DOMAIN run.pages}
          = (0..(run.loc.rows - 1)) \X (0..(run.loc.cols - 1))
    /\ \A j, k \in DOMAIN run.pages :
          j < k => \/ run.pages[j].row < run.pages[k].row
                   \/ /\ run.pages[j].row = run.pages[k].row
                      /\ run.pages[j].col < run.pages[k].col

IsDefaultScenario(cfg) ==
    /\ cfg.paperId = "letter" /\ cfg.orientation = "portrait"
    /\ cfg.unit = "in" /\ cfg.margin = 500
    /\ cfg.mode = "grid" /\ cfg.gridRows = 3 /\ cfg.gridCols = 3

\* C4: a successful export has emitted exactly rows * cols pages, in
\* row-major order, each of the oriented paper size; Letter, portrait,
\* 0.5 in margin, GRID 3 x 3 yields 9 pages.
C4_PagesRowMajor ==
    \A run \in DoneRuns :
        /\ run.saved
        /\ Len(run.pages) = (IF run.loc.rows > 0 /\ run.loc.cols > 0
                             THEN run.loc.rows * run.loc.cols ELSE 0)
        /\ RowMajor(run)
        /\ \A k \in DOMAIN run.pages :
              /\ run.pages[k].width = PaperNumber[run.paper]
                    [IF (run.config.orientation = "portrait") THEN
                        (IF run.config.unit = "in" THEN "widthIn" ELSE "width")
                     ELSE (IF run.config.unit = "in" THEN "heightIn" ELSE "height")]
              /\ run.pages[k].height = PaperNumber[run.paper]
                    [IF (run.config.orientation = "portrait") THEN
                        (IF run.config.unit = "in" THEN "heightIn" ELSE "height")
                     ELSE (IF run.config.unit = "in" THEN "widthIn" ELSE "width")]
        /\ IsDefaultScenario(run.config) => Len(run.pages) = 9

\* the default scenario has been exported: nine pages
C4_Witness ==
    \E run \in DoneRuns : IsDefaultScenario(run.config) /\ Len(run.pages) = 9

\* C5: a config with an invalid numeric field (rows or columns not an
\* integer in 1..20, a negative margin, a target size not above 0, no
\* printable area) is rejected with an error and yields no document.
C5_InvalidConfigRejected ==
    \A run \in RunSet :
        ~ValidConfig(run.config) =>
            /\ run.pc # "done"
            /\ run.pages = <<>>
            /\ ~run.saved

\* a step starts a call of generateTiledPDF
StartsRun == runs' # runs /\ Len(runs') = Len(LiveRuns) + 1

\* C10: no two calls of generateTiledPDF are ever active together, and
\* while isExporting no step starts one.
C10_OneExportAtATime ==
    /\ [](Len(LiveRuns) <= 1)
    /\ [][isExporting => ~StartsRun]_vars

\* an export is in flight, its button disabled
C10_Witness == isExporting /\ Len(LiveRuns) = 1 /\ ~ENABLED handleExport

PhysicalFields == {"targetWidth", "targetHeight", "margin", "overlap"}

Abs(n) == IF n < 0 THEN -n ELSE n

\* after a toggle from millimetres to inches, the toggle back returns
\* every physical field within tol thousandths of a millimetre of what
\* it was before
RoundTripWithin(tol) ==
    (config.unit = "mm" /\ config'.unit = "in") =>
        \A f \in PhysicalFields :
            Abs(toggleUnitConfig(config')[f] - config[f]) <= tol

\* C6 as stated: the round trip mm -> inch -> mm returns each physical
\* value within 0.01 of the original.
C6_RoundTripWithinHundredth == [][RoundTripWithin(10)]_vars

\* C6, amended: the round trip mm -> inch -> mm returns each physical
\* value within 0.132 mm of the original (half a hundredth of an inch
\* plus half a hundredth of a millimetre).
C6_RoundTripWithinInchStep == [][RoundTripWithin(132)]_vars

\* the toggle has taken the config with targetWidth 0.38 mm (and margin
\* 4.826 mm) to 0.01 in, which the toggle back takes to 0.25 mm
C6_Witness ==
    /\ edits = 1
    /\ config.unit = "in"
    /\ config.targetWidth = 10
    /\ config.margin = 190
    /\ toggleUnitConfig(config).targetWidth = 250

\* the layer the pointer-moves of the gesture update
Dragged(lys) == {lys[k] : k \in {j \in DOMAIN lys : lys[j].id = selectedLayerId}}

Snapshot == interaction.startLayer[1]

\* the corner opposite to the handle is where the snapshot has it
OppositeCornerKept(handle, start, l) ==
    /\ handle \in {"se", "ne"} => l.x = start.x
    /\ handle \in {"sw", "nw"} => NumAdd(l.x, l.width) = NumAdd(start.x, start.width)
    /\ handle \in {"se", "sw"} => l.y = start.y
    /\ handle \in {"ne", "nw"} => NumAdd(l.y, l.height) = NumAdd(start.y, start.height)

\* C7: after every pointer-move of a resize gesture, whatever the handle,
\* the snapshot and the pointer position, the corner opposite to the
\* dragged handle is where it was in the gesture-start snapshot.
C7_OppositeCornerFixed ==
    [][(interaction.mode = "resizing" /\ PointerMove) =>
          \A l \in Dragged(layers') :
              OppositeCornerKept(interaction.activeHandle, Snapshot, l)]_vars

\* the width and the height the displacement delta drags the snapshot to
DraggedWidth(handle, start, delta) ==
    IF handle \in {"se", "ne"} THEN NumAdd(start.width, delta.x)
    ELSE NumSub(start.width, delta.x)

DraggedHeight(handle, start, delta) ==
    IF handle \in {"se", "sw"} THEN NumAdd(start.height, delta.y)
    ELSE NumSub(start.height, delta.y)

\* C8: after every pointer-move of a resize gesture the width is the
\* floor when the drag takes it below the floor and the dragged width
\* otherwise, and the same for the height; so both are at least the floor.
C8_SizeFloor ==
    [][\A pos \in Pointers :
          (interaction.mode = "resizing" /\ handleMouseMove(pos)) =>
              \A l \in Dragged(layers') :
                  LET delta == PointerDelta(config, interaction, pos)
                      w == DraggedWidth(interaction.activeHandle, Snapshot, delta)
                      h == DraggedHeight(interaction.activeHandle, Snapshot, delta)
                  IN  /\ l.width = (IF NumLt(w, MIN_SIZE) THEN MIN_SIZE ELSE w)
                      /\ l.height = (IF NumLt(h, MIN_SIZE) THEN MIN_SIZE ELSE h)
                      /\ NumGe(l.width, MIN_SIZE)
                      /\ NumGe(l.height, MIN_SIZE)]_vars

\* the displacements the pointer-moves of the gesture can have
Deltas == {PointerDelta(config, interaction, pos) : pos \in Pointers}

\* C9: during a gesture the layers after a pointer-move are the same
\* whether or not another pointer-move came before it, and a second move
\* at the same position changes nothing: the geometry depends on the
\* snapshot and on the position of the last move only.
C9_MoveDependsOnSnapshotOnly ==
    interaction.mode # "none" =>
        \A last \in Deltas :
            LET direct == AfterMove(interaction, selectedLayerId, layers, last)
            IN  /\ AfterMove(interaction, selectedLayerId, direct, last) = direct
                /\ \A earlier \in Deltas :
                      AfterMove(interaction, selectedLayerId,
                                AfterMove(interaction, selectedLayerId, layers, earlier),
                                last) = direct

\* a gesture in which a pointer-move has taken the layer away from its
\* snapshot
C9_Witness ==
    /\ interaction.mode # "none"
    /\ \E l \in Dragged(layers) : l.id = Snapshot.id /\ l # Snapshot

\* C11: an image that fails to decode does not end the export: every call
\* that got past the margin check and is no longer waiting has returned,
\* with every layer gone through, rows * cols pages and the document saved.
C11_DecodeFailureNonFatal ==
    \A run \in RunSet :
        (~run.loc.throws /\ ~IsLive(run)) =>
            /\ run.pc = "done"
            /\ run.i = Len(run.layers) + 1
            /\ Len(run.pages) = run.loc.rows * run.loc.cols
            /\ run.saved


\* the entry of the table with the id, Letter's for an id the table lacks
CatalogPaper(id) ==
    CHOOSE p \in {PAPER_SIZES[i] : i \in DOMAIN PAPER_SIZES} :
        p.id = (IF id \in PaperIds THEN id ELSE "letter")

\* C12: whatever config.paperId is, the paper of the editor and of every
\* export is the table's entry with that id, or Letter when the table has
\* none; an id the table lacks stops neither the editor nor the export.
C12_UnknownPaperFallsBack ==
    /\ selectedPaper(config) = CatalogPaper(config.paperId)
    /\ \A run \in RunSet :
          /\ run.paper = CatalogPaper(run.config.paperId).id
          /\ run.loc.pWidth \in {PaperNumber[run.paper][f] :
                                    f \in {"width", "height", "widthIn", "heightIn"}}
          /\ run.error # "margins"

\* an export of a config whose paper id the table lacks has been saved, on
\* Letter
C12_Witness ==
    \E run \in DoneRuns :
        /\ run.config.paperId \notin PaperIds
        /\ run.paper = "letter"
        /\ run.saved

\* cut lines are on, in a style that draws
CutLinesOn(cfg) == cfg.showCutLines /\ cfg.cutLineStyle # "none"

\* the pages of the exports that have returned
DonePages == UNION {{[run |-> run, page |-> run.pages[k]] : k \in DOMAIN run.pages} :
                       run \in DoneRuns}

\* C13: with cut lines on, every page has a scissor mark at each of the
\* four corners of the printable rectangle.
C13_FourCornerMarks ==
    \A dp \in DonePages :
        CutLinesOn(dp.run.config) =>
            dp.page.marks = {"topLeft", "topRight", "bottomLeft", "bottomRight"}

\* C14: with cut lines on, the outline of every page is the printable
\* area: from (margin, margin), printW wide and printH high, on the pages
\* of partial tiles too.
C14_OutlineIsPrintableArea ==
    \A dp \in DonePages :
        CutLinesOn(dp.run.config) =>
            /\ dp.page.outline
            /\ dp.page.rectX = dp.run.config.margin
            /\ dp.page.rectY = dp.run.config.margin
            /\ dp.page.rectW = dp.run.loc.printW
            /\ dp.page.rectH = dp.run.loc.printH

\* the source rectangle of the page is not positive along an axis
Degenerate(page) == FSign(page.sw) <= 0 \/ FSign(page.sh) <= 0

\* C15: a page whose source rectangle has a width or a height that is not
\* positive is added all the same, in an export that returns and saves:
\* it has no image, and it has its outline when cut lines are on and its
\* label when page numbers are.
C15_DegenerateTileTolerated ==
    \A run \in DoneRuns :
        /\ run.saved
        /\ Len(run.pages) = (IF run.loc.rows > 0 /\ run.loc.cols > 0
                             THEN run.loc.rows * run.loc.cols ELSE 0)
        /\ \A k \in DOMAIN run.pages :
              Degenerate(run.pages[k]) =>
                  /\ ~run.pages[k].image
                  /\ run.pages[k].outline = CutLinesOn(run.config)
                  /\ run.pages[k].label =
                        (IF run.config.showPageNumbers
                         THEN <<run.pages[k].row + 1, run.pages[k].col + 1>> ELSE <<>>)

\* an export has returned with a page of an empty source rectangle that
\* carries an outline and a label
C15_Witness ==
    \E dp \in DonePages :
        /\ Degenerate(dp.page)
        /\ dp.page.outline
        /\ dp.page.label # <<>>

\* C16: the image of a page is placed at (margin, margin) with the size of
\* its source rectangle in the unit, sw / scale by sh / scale: the rest of
\* the poster when that is less than the printable area, never more than
\* the printable area.
C16_TilePlacedAtSourceSize ==
    \A dp \in DonePages :
        dp.page.image =>
            LET loc == dp.run.loc
                pg == dp.page
            IN  /\ pg.imageX = dp.run.config.margin
                /\ pg.imageY = dp.run.config.margin
                /\ FMul(pg.imageW, FromInt(loc.scale)) = pg.sw
                /\ FMul(pg.imageH, FromInt(loc.scale)) = pg.sh
                /\ pg.imageW = FMin(loc.printW,
                                    FSub(loc.posterWidth, FMul(FromInt(pg.col), loc.printW)))
                /\ pg.imageH = FMin(loc.printH,
                                    FSub(loc.posterHeight, FMul(FromInt(pg.row), loc.printH)))
                /\ FLe(pg.imageW, loc.printW)
                /\ FLe(pg.imageH, loc.printH)

\* the image of a partial tile has been placed, narrower than the
\* printable area
C16_Witness ==
    \E dp \in DonePages :
        /\ dp.page.image
        /\ FLt(dp.page.imageW, dp.run.loc.printW)
        /\ dp.page.col = dp.run.loc.cols - 1

\* the layout the export derives equals the layout the editor shows
SameLayout(shown, loc) ==
    /\ shown.printW = loc.printW
    /\ shown.printH = loc.printH
    /\ shown.posterWidth = loc.posterWidth
    /\ shown.posterHeight = loc.posterHeight
    /\ shown.cols = FromInt(loc.cols)
    /\ shown.rows = FromInt(loc.rows)

\* C17: for the config and the paper of every state, the layout of the
\* editor (poster size, cols, rows, printable area) is the layout
\* generateTiledPDF derives from them.
C17_EditorLayoutIsExportLayout ==
    LET loc == Layout(config, selectedPaper(config))
    IN  ~loc.throws => SameLayout(EditorLayout(config, selectedPaper(config)), loc)

\* what the run has drawn is the layers before layer i, in their order
DrawnInOrder(run) ==
    /\ Len(run.drawn) = run.i - 1
    /\ \A k \in DOMAIN run.drawn : run.drawn[k] = run.layers[k].id

\* C18: the layers are drawn one after the other in the order of the
\* list: what a call has drawn is always the layers before the one it is
\* at, a waiting call waits for the image of that layer with nothing
\* after it drawn, and pages exist only once every layer is drawn.
C18_LayersDrawnInSequence ==
    \A run \in RunSet :
        /\ DrawnInOrder(run)
        /\ IsLive(run) => /\ run.i \in DOMAIN run.layers
                          /\ run.layers[run.i].type = "image"
                          /\ run.pages = <<>>
        /\ run.pages # <<>> => Len(run.drawn) = Len(run.layers)

\* a call has drawn layer 1 and waits for the image of layer 2, with a
\* text layer after it
C18_Witness ==
    \E run \in RunSet :
        /\ IsLive(run)
        /\ run.i = 2
        /\ run.drawn = <<run.layers[1].id>>
        /\ Len(run.layers) = 3
        /\ run.layers[3].type = "text"

\* C19: given that every image a call waits for reports load or error,
\* an export that is under way always comes to its end, returned or
\* failed, and isExporting is false again.
C19_ExportEnds ==
    (isExporting \/ Len(LiveRuns) > 0) ~>
        (/\ ~isExporting
         /\ \A run \in RunSet : run.pc \in {"done", "failed"})

\* an export that had to wait for an image has ended and the flag is
\* reset
C19_Witness ==
    /\ ~isExporting
    /\ \E run \in RunSet :
          /\ run.pc \in {"done", "failed"}
          /\ \E k \in DOMAIN run.layers : run.layers[k].type = "image"

\* the layer of the run with the id
LayerOf(run, id) == CHOOSE l \in {run.layers[k] : k \in DOMAIN run.layers} : l.id = id

\* the texts drawn by the exports that have returned
DoneTexts == UNION {{[run |-> run, text |-> run.texts[k]] : k \in DOMAIN run.texts} :
                       run \in DoneRuns}

\* C20: the font size of every text layer drawn is 0.05 times the height
\* of the canvas times the layer's font-size multiplier, whatever the
\* multiplier, and line i is drawn i * 1.2 * fontSize below the layer's
\* top; multiplier 1 on a canvas 1000 high gives 50, the second line 60
\* lower.
C20_TextFontAndLines ==
    \A dt \in DoneTexts :
        LET l == LayerOf(dt.run, dt.text.id)
            h == FromInt(dt.run.loc.canvasHeight)
        IN  /\ dt.text.fontSize = FMul(FMul(Dec(5, 100), h), Dec(l.fontSize, 10))
            /\ Len(dt.text.offsets) = l.lines
            /\ \A k \in DOMAIN dt.text.offsets :
                  dt.text.offsets[k] =
                      FMul(FMul(FromInt(k - 1), Dec(12, 10)), dt.text.fontSize)
            /\ (l.fontSize = 10 /\ dt.run.loc.canvasHeight = 1000) =>
                  /\ dt.text.fontSize = FromInt(50)
                  /\ Len(dt.text.offsets) >= 2 => dt.text.offsets[2] = FromInt(60)

\* the place of a call in the order of one page: the page, its tile, its
\* cut lines, its number
CallRank(op) ==
    CASE op = "addPage" -> 0
      [] op = "addImage" -> 1
      [] op \in {"setLineStyle", "rect", "line"} -> 2
      [] op = "text" -> 3
      [] OTHER -> 4

\* the calls of a document in the order of the protocol
InProtocolOrder(cs, pageCount) ==
    /\ Len(cs) >= 2
    /\ cs[1].op = "newDocument"
    /\ \A i \in 2..Len(cs) : cs[i].op # "newDocument"
    /\ cs[Len(cs)].op = "save"
    /\ \A i \in 1..(Len(cs) - 1) : cs[i].op # "save"
    /\ \A k \in 1..pageCount :
          Cardinality({i \in DOMAIN cs : cs[i] = Call("addPage", k)}) = 1
    /\ \A i \in DOMAIN cs :
          CallRank(cs[i].op) <= 3 => cs[i].page \in 1..pageCount
    /\ \A i, j \in DOMAIN cs :
          (i < j /\ CallRank(cs[i].op) <= 3 /\ CallRank(cs[j].op) <= 3)
              => \/ cs[i].page < cs[j].page
                 \/ /\ cs[i].page = cs[j].page
                    /\ CallRank(cs[i].op) <= CallRank(cs[j].op)
                    /\ cs[j].op # "addPage"

\* C21: the calls of an export on the document follow the order of the
\* protocol: the document is created first; on each page addPage comes
\* before the tile image, the image before the cut-line rectangle and the
\* marks, these before the page number; save is called once, as the last
\* call, after the calls of the last page; an export that has not returned
\* has made no call.
C21_SinkProtocolOrder ==
    \A run \in RunSet :
        IF run.pc = "done" THEN InProtocolOrder(run.calls, Len(run.pages))
        ELSE run.calls = <<>>

\* an export of several pages, one of them with a tile, cut lines and a
\* page number
C21_Witness ==
    \E run \in DoneRuns :
        /\ Len(run.pages) >= 2
        /\ \E k \in DOMAIN run.pages :
              /\ run.pages[k].image /\ run.pages[k].outline
              /\ run.pages[k].label # <<>>
              /\ {Call("addImage", k), Call("rect", k), Call("text", k)}
                     \subseteq {run.calls[i] : i \in DOMAIN run.calls}

\* the interaction is one of idle (mode none, nothing else set), moving
\* (a snapshot, no handle) and resizing (a snapshot and a handle)
InteractionShape ==
    /\ interaction.mode \in {"none", "moving", "resizing"}
    /\ (interaction.mode = "none") <=> (interaction.startLayer = <<>>)
    /\ (interaction.activeHandle # None) <=> (interaction.mode = "resizing")

\* the layers that are in the sequence before and after a step are the
\* same after it as before it
LayersKept ==
    \A k \in DOMAIN layers : \A n \in DOMAIN layers' :
        layers[k].id = layers'[n].id => layers[k] = layers'[n]

\* the steps of the interaction: a mouse-down (the only step that counts a
\* gesture) enters moving or resizing with a snapshot of a layer; any other
\* step that changes the interaction is a mouse-up or a mouse-leave, and
\* it returns to idle; in idle no step changes a layer
InteractionStep ==
    /\ gestures' # gestures =>
          /\ interaction'.mode =
                 IF interaction'.activeHandle = None THEN "moving" ELSE "resizing"
          /\ \E k \in DOMAIN layers : interaction'.startLayer = <<layers[k]>>
    /\ (gestures' = gestures /\ interaction' # interaction) =>
          interaction' = NoInteraction
    /\ interaction.mode = "none" => LayersKept

\* C22: the interaction is a state machine over idle, moving and resizing:
\* the mode is idle exactly when there is no snapshot of the start layer,
\* a handle is active exactly when the mode is resizing, a mouse-down on a
\* layer's body enters moving and on a handle enters resizing, a mouse-up
\* or a mouse-leave returns to idle, and a mouse-move in idle changes no
\* layer.
C22_InteractionStateMachine == [](InteractionShape) /\ [][InteractionStep]_vars

\* a resize under way after a move has changed the layer
C22_Witness ==
    /\ interaction.mode = "resizing"
    /\ interaction.activeHandle # None
    /\ interaction.startLayer # <<>>
    /\ \E k \in DOMAIN layers :
          /\ layers[k].id = interaction.startLayer[1].id
          /\ layers[k] # interaction.startLayer[1]

\* the ids of a list of layers, in its order
Ids(lys) == [k \in DOMAIN lys |-> lys[k].id]

\* the layers of after that were in before are in the order they had
KeepsOrder(before, after) ==
    \A i, j \in DOMAIN after :
        i < j => \A a, b \in DOMAIN before :
                    (before[a].id = after[i].id /\ before[b].id = after[j].id) => a < b

\* a step of the list of layers: an added layer goes last, above the
\* others, which stay as they are; an update changes one layer in its
\* place; a removal takes one layer out and leaves the others as they are,
\* in their order
LayerListStep ==
    /\ KeepsOrder(layers, layers')
    /\ Len(layers') > Len(layers) =>
          /\ Len(layers') = Len(layers) + 1
          /\ SubSeq(layers', 1, Len(layers)) = layers
          /\ \A k \in DOMAIN layers : layers[k].id # layers'[Len(layers')].id
    /\ Len(layers') = Len(layers) =>
          /\ Ids(layers') = Ids(layers)
          /\ Cardinality({k \in DOMAIN layers : layers'[k] # layers[k]}) <= 1
    /\ Len(layers') < Len(layers) =>
          /\ Len(layers') = Len(layers) - 1
          /\ \A n \in DOMAIN layers' : \E k \in DOMAIN layers : layers'[n] = layers[k]

\* an export started by the step paints the list as it is
PaintsTheList ==
    (runs' # runs /\ isExporting = FALSE /\ runs' # <<>>)
        => runs'[Len(runs')].layers = layers

\* C23: the list of layers is the paint order: a new layer is appended as
\* the last one and leaves the others and their order as they are, an
\* update or a removal keeps the order of all the other layers, and the
\* compositor paints the layers of the list from the first to the last.
C23_LayerListIsPaintOrder ==
    /\ [][LayerListStep /\ PaintsTheList]_vars
    /\ [](\A run \in RunSet : DrawnInOrder(run))

\* an export has painted, in the order of the list, what was left after
\* the first layer was removed and a third one added
C23_Witness ==
    \E run \in DoneRuns :
        /\ Ids(run.layers) = <<-1, 1>>
        /\ run.drawn = <<-1, 1>>
        /\ Ids(layers) = <<-1, 1>>

\* the physical fields of two configs are the same
SamePhysical(c, d) == \A f \in PhysicalFields : c[f] = d[f]

\* the config after two more toggles
ToggledTwice(c) == toggleUnitConfig(toggleUnitConfig(c))

\* C24 as stated: from any config, the physical fields after three unit
\* toggles are those after one toggle.
C24_StableAfterOneToggle == [][SamePhysical(ToggledTwice(config'), config')]_vars

\* C24, amended: from any config, the physical fields after four unit
\* toggles are those after two, so after the second toggle every further
\* pair of toggles returns the same values; from a config in millimetres
\* the fields after three toggles are those after one.
C24_StableAfterTwoToggles ==
    [][/\ SamePhysical(ToggledTwice(toggleUnitConfig(config')), toggleUnitConfig(config'))
       /\ config.unit = "mm" => SamePhysical(ToggledTwice(config'), config')]_vars

\* the toggle has taken 1.381 in to 35.08 mm; two more toggles give
\* 35.05 mm, and 1.38 in from then on
C24_Witness ==
    /\ edits = 1
    /\ config.unit = "mm"
    /\ config.targetHeight = 35080
    /\ ToggledTwice(config).targetHeight = 35050
    /\ toggleUnitConfig(config).targetHeight = 1380
    /\ toggleUnitConfig(ToggledTwice(config)).targetHeight = 1380

\* the selection is null or a layer of the list
SelectionInList ==
    selectedLayerId = NullId \/ \E k \in DOMAIN layers : layers[k].id = selectedLayerId

\* a step that takes the selected layer out of the list clears the
\* selection
RemovalClearsSelection ==
    ((\E k \in DOMAIN layers : layers[k].id = selectedLayerId)
        /\ ~(\E n \in DOMAIN layers' : layers'[n].id = selectedLayerId))
        => selectedLayerId' = NullId

\* C25: whatever layers are added, removed and selected and whatever the
\* pointer does, the selection is null or the id of a layer of the list,
\* and removing the selected layer clears the selection.
C25_SelectionIsALayer == [](SelectionInList) /\ [][RemovalClearsSelection]_vars

\* after a gesture on the canvas the earlier layer was selected and
\* removed; the layer added is the only one, and nothing is selected
C25_Witness ==
    /\ gestures = 1
    /\ Ids(layers) = <<1>>
    /\ selectedLayerId = NullId
    /\ interaction = NoInteraction

\* the layers a step has changed in their place
ChangedLayers == {layers[k] : k \in {j \in DOMAIN layers : layers'[j] # layers[j]}}

\* a mouse-move of a gesture that updates a layer: the interaction stays
\* as it is, with a snapshot, and a layer of the list changes in its place
GestureUpdate ==
    /\ interaction.mode # "none"
    /\ interaction' = interaction
    /\ Ids(layers') = Ids(layers)
    /\ layers' # layers

\* C26: during a gesture every mouse-move updates the layer whose snapshot
\* was taken at the mouse-down: the selected layer, which gets the update,
\* is the layer of the snapshot.
C26_UpdateGoesToSnapshotLayer ==
    [][GestureUpdate =>
          /\ selectedLayerId = interaction.startLayer[1].id
          /\ \A l \in ChangedLayers : l.id = interaction.startLayer[1].id]_vars

\* the click that ends a press on a layer's element: the button went down
\* on the layer, which the mouse-down selected, was released inside the
\* container, and the click is dispatched
ClickOnLayer ==
    /\ pressed # NullId
    /\ selectedLayerId = pressed
    /\ interaction.mode = "none"
    /\ interaction' = interaction
    /\ pressed' = NullId
    /\ layers' = layers

\* C27: a layer selected by a mouse-down is still selected when the
\* gesture is over: neither the mouse-up nor the click that follows it on
\* the layer's element clears the selection.
C27_SelectionSurvivesGesture ==
    [][/\ (interaction.mode # "none" /\ interaction'.mode = "none" /\ layers' = layers)
              => selectedLayerId' = selectedLayerId
       /\ ClickOnLayer => selectedLayerId' = selectedLayerId]_vars

\* the source rectangle of a page has a positive width and height and
\* lies inside the poster
TileInsidePoster(loc, pg) ==
    /\ FSign(pg.srcW) > 0
    /\ FSign(pg.srcH) > 0
    /\ FSign(pg.srcX) >= 0
    /\ FSign(pg.srcY) >= 0
    /\ FLe(FAdd(pg.srcX, pg.srcW), loc.posterWidth)
    /\ FLe(FAdd(pg.srcY, pg.srcH), loc.posterHeight)
    /\ FLe(FAdd(pg.sw, FMul(pg.srcX, FromInt(loc.scale))), FromInt(loc.canvasWidth))
    /\ FLe(FAdd(pg.sh, FMul(pg.srcY, FromInt(loc.scale))), FromInt(loc.canvasHeight))

\* the first column and the first row start at 0, the last end at the
\* edge of the poster, and a page further right (further down) starts
\* further right (further down)
TilesApart(loc, pg, other) ==
    /\ pg.col = 0 => FSign(pg.srcX) = 0
    /\ pg.row = 0 => FSign(pg.srcY) = 0
    /\ pg.col = loc.cols - 1 => FAdd(pg.srcX, pg.srcW) = loc.posterWidth
    /\ pg.row = loc.rows - 1 => FAdd(pg.srcY, pg.srcH) = loc.posterHeight
    /\ other.col > pg.col => FLt(pg.srcX, other.srcX)
    /\ other.row > pg.row => FLt(pg.srcY, other.srcY)

\* C28: in an export that has passed the margin check with a poster of
\* positive size, the source rectangles of the pages partition the poster:
\* each has a positive width and height and lies inside the poster and the
\* canvas, and the rectangles of a row lie side by side from 0 to
\* posterWidth, those of a column from 0 to posterHeight.
C28_TilesPartitionPoster ==
    \A run \in DoneRuns :
        (FSign(run.loc.posterWidth) > 0 /\ FSign(run.loc.posterHeight) > 0) =>
            /\ run.pages # <<>>
            /\ \A k \in DOMAIN run.pages : TileInsidePoster(run.loc, run.pages[k])
            /\ \A k, n \in DOMAIN run.pages :
                  TilesApart(run.loc, run.pages[k], run.pages[n])

\* what a call of generateTiledPDF was given
Arguments(run) == <<run.config, run.layers, run.paper>>

\* a step of an export: the click hands over the config and the layers of
\* the editor as they are; the continuation after an image keeps what the
\* call was given; neither changes the layers, the config or the selection
ExportStep ==
    runs' # runs =>
        /\ config' = config /\ layers' = layers /\ selectedLayerId' = selectedLayerId
        /\ ~isExporting =>
              /\ runs' # <<>>
              /\ Arguments(runs'[Len(runs')]) = <<config, layers, selectedPaper(config).id>>
        /\ isExporting =>
              /\ Len(runs') = Len(runs)
              /\ \A n \in DOMAIN runs : Arguments(runs'[n]) = Arguments(runs[n])

\* the pages and the painted layers of a returned export are those of the
\* config and the layers it was given
PagesOfArguments(run) ==
    /\ run.loc = Layout(run.config, selectedPaper(run.config))
    /\ run.pages = Pages(run.config, run.loc)
    /\ run.drawn = Ids(run.layers)

\* C29: an export works on the config and the layers as they were when it
\* was requested: what is edited while it waits for an image changes
\* neither what it was given nor the pages it emits, and the export
\* changes neither the layers, the config nor the selection.
C29_ExportWorksOnItsSnapshot ==
    /\ [][ExportStep]_vars
    /\ [](\A run \in DoneRuns : PagesOfArguments(run))

\* an export waits for the image of its second layer while the editor has
\* another orientation and another list of layers than it was given
C29_Witness ==
    \E run \in RunSet :
        /\ IsLive(run)
        /\ run.i = 2
        /\ run.config.orientation # config.orientation
        /\ Ids(run.layers) # Ids(layers)

=============================================================================
